---------------------------- MODULE Spec2Model ----------------------------
(***************************************************************************)
(* Peripheral-simulation harness of the Tiliqua gateware: the byte         *)
(* addressable PSRAM model (tb_cpp/psram.h), the TDM/I2S audio driver      *)
(* (tb_cpp/i2s.h and its count-down copy in top/dsp/sim_dsp_core.cpp), the *)
(* DVI capture model (tb_cpp/dvi.h) and the multi-clock scheduler loop     *)
(* (tb_cpp/sim_soc.cpp).  The device under test is a black box: its output *)
(* signals are inputs of the model, drawn from small sets.                 *)
(***************************************************************************)
EXTENDS Integers, Sequences, FiniteSets, TLC

VARIABLES
    \* ---- PSRAMDriver (psram.h) ----
    psram_data,       \* the memory image, byte per address
    read_data_view,   \* dut->read_data_view, driven by the model
    idle_lo, idle_hi, \* bandwidth counters
    clk_sync,         \* dut->clk_sync, toggled by the scheduler
    psram_sig,        \* the DUT outputs the last post_edge call saw
    psram_evals,      \* number of dut->eval() calls made by the last call
    psram_calls,      \* number of post_edge calls so far
    shadow,           \* history: the word last stored at an address, if no
                      \* later write touched its bytes
    psram_expect,     \* history: shadow at the read address of the last call
    psram_before      \* history: the memory image before the last call

memVars == <<psram_data, read_data_view, idle_lo, idle_hi, clk_sync,
             psram_sig, psram_evals, psram_calls, shadow, psram_expect,
             psram_before>>

VARIABLES
    \* ---- DVIDriver (dvi.h) ----
    x, y,             \* the write cursor
    frames,           \* the frame counter
    image_data,       \* the frame buffer, DVI_H_ACTIVE*DVI_V_ACTIVE*3 bytes
    clk_dvi,          \* dut->clk_dvi, toggled by the scheduler
    dvi_sig,          \* the DUT outputs the last post_edge call saw
    dvi_fault,        \* the process died on a write outside the buffer
    dvi_n,            \* the DUT's pixel counter: data-enable ticks since vsync
    dvi_synced,       \* history: a vsync has been seen
    frames_at_sync,   \* history: frames at the last vsync
    dvi_wr            \* history: byte index written by the last call, or -1

dviVars == <<x, y, frames, image_data, clk_dvi, dvi_sig, dvi_fault, dvi_n,
             dvi_synced, frames_at_sync, dvi_wr>>

VARIABLES
    \* ---- I2SDriver (i2s.h; count-down copy in sim_dsp_core.cpp) ----
    channels,         \* ChannelState channels[N_CHANNELS]
    current_channel,
    bit_counter,
    last_lrck, last_bick,
    i2s_sdout1,       \* dut->i2s_sdout1, driven by the model
    i2s_sig,          \* the DUT outputs the last post_edge call saw
    variant,          \* "up": i2s.h, "down": the copy in sim_dsp_core.cpp
    gen_phase,        \* framed source: call index of the first lrck rise
    gen_n,            \* framed source: number of post_edge calls so far
    injected,         \* history: every sample given to inject_sample
    i2s_ev,           \* history: what the last post_edge call did
    frame_starts,     \* history: start_channel_transmission calls since
                      \* (and with) the last lrck rising edge
    prev_frame_starts, \* history: frame_starts of the frame closed last
    active_empty,     \* history: the queue of the active slot was empty when
                      \* the slot last became active
    api,              \* history: the last inject_sample or
                      \* get_captured_samples call, if no post_edge followed
    rx_pattern,       \* pattern source: the 16-bit pattern being sent
    falls,            \* history: bick falling edges since (and with) the
                      \* last lrck rising edge, modulo two frames
    tx_trace          \* history: the bits driven on i2s_sdout1 since the
                      \* active slot was set up, the first 16 of them

i2sVars == <<channels, current_channel, bit_counter, last_lrck, last_bick,
             i2s_sdout1, i2s_sig, variant, gen_phase, gen_n, injected,
             i2s_ev, frame_starts, prev_frame_starts, active_empty, api,
             rx_pattern, falls, tx_trace>>

VARIABLES
    \* ---- the scheduler loop of main (sim_soc.cpp) ----
    time_ps,          \* contextp->time()
    timestamp_ns,     \* the step's timestamp_ns
    clk_audio,        \* dut->clk_audio
    pc,               \* position in the loop
    got_finish,       \* contextp->gotFinish()
    flips,            \* history: level changes of each clock in this step
    total_flips,      \* history: level changes of each clock since the start
    step_clk,         \* history: the clock levels when the step began
    seen,             \* history: the clock levels each handler of this
                      \* step ran under
    order,            \* history: toggles and handler calls of this step
    dirty,            \* history: the DUT inputs written since the last
                      \* top->eval()
    read_under        \* history: per handler of this step, the inputs that
                      \* were dirty when it read DUT outputs

schedVars == <<time_ps, timestamp_ns, clk_audio, pc, got_finish, flips,
               total_flips, step_clk, seen, order, dirty, read_under>>

vars == <<memVars, dviVars, i2sVars, schedVars>>

-----------------------------------------------------------------------------
(* Bounds of the model *)

\* size of the modelled memory image in bytes (the program allocates 32 MiB)
MemBytes == 8
\* number of post_edge calls of the memory model that are explored
MaxMemCalls == 5
\* samples given to one channel before a framed run
MaxInject == 2
\* captured samples of one channel at which a free-running run stops
MaxCaptured == 2
\* the horizon sim_time of the scheduler loop, in ps (the program: 5000e9)
MaxSimTime == 130000
\* the video mode (a build option of the harness), kept small
DVI_H_ACTIVE == 3
DVI_V_ACTIVE == 2

-----------------------------------------------------------------------------
(* Bit-level helpers *)

RECURSIVE Pow2(_)
Pow2(n) == IF n = 0 THEN 1 ELSE 2 * Pow2(n - 1)

\* A 32-bit word is kept as the pair <<high half, low half>> of 16-bit
\* values (TLC integers are 32-bit signed): <<h, l>> is h*2^16 + l.
U32(h, l) == <<h, l>>

\* (uint8_t)(w >> (8*i)) of a 32-bit word, i in 0..3
ByteOf(w, i) ==
    IF i < 2 THEN (w[2] \div Pow2(8 * i)) % 256
    ELSE (w[1] \div Pow2(8 * (i - 2))) % 256

BoolToInt(b) == IF b THEN 1 ELSE 0

-----------------------------------------------------------------------------
(* PSRAMDriver *)

NoWord == <<>>

\* 0xDEADBEEF and 0x01020304
Words == {U32(57005, 48879), U32(258, 772)}

\* in-bounds word addresses the DUT presents: two overlapping words and one
\* that is disjoint from both
Addrs == {0, 1, MemBytes - 4}

\* the read branch of post_edge: a little-endian word from four bytes
\* (b3 << 24) | (b2 << 16) | (b1 << 8) | (b0 << 0)
ReadWord(mem, a) ==
    U32(mem[a + 3] * Pow2(8) + mem[a + 2], mem[a + 1] * Pow2(8) + mem[a + 0])

WriteWordLowHalf(mem, a, w) ==
    [i \in DOMAIN mem |->
        IF i \in a..(a + 1) THEN ByteOf(w, i - a) ELSE mem[i]]

WriteWordSwapped(mem, a, w) ==
    [i \in DOMAIN mem |->
        IF i \in a..(a + 3) THEN ByteOf(w, 3 - (i - a)) ELSE mem[i]]

\* the write branch of post_edge: four bytes from a word, little-endian
WriteWord(mem, a, w) ==
    [i \in DOMAIN mem |->
        IF i \in a..(a + 3) THEN ByteOf(w, i - a) ELSE mem[i]]

\* The DUT outputs one post_edge call sees.  ra is address_ptr when the read
\* branch runs; wr, wa, wd are write_ready, address_ptr and write_data when
\* the write branch runs.  The read branch ends in dut->eval(), which is the
\* first evaluation after the clock toggle, so the DUT may present new
\* values to the write branch; without a serviced read nothing is evaluated
\* in between and the address is the same.
PsramSignals(clk) ==
    {s \in [rd : BOOLEAN, ra : Addrs, wr : BOOLEAN, wa : Addrs, wd : Words,
            idle : BOOLEAN] :
        /\ (~(clk /\ s.rd)) => s.wa = s.ra
        /\ s.idle = ~(s.rd \/ s.wr)}

PsramQuiet == [rd |-> FALSE, ra |-> 0, wr |-> FALSE, wa |-> 0,
               wd |-> U32(258, 772), idle |-> TRUE]

PSRAMPostEdgeAnyPhase(clk, s) ==
    LET doRead  == s.rd
        doWrite == s.wr
    IN  /\ read_data_view' =
              IF doRead THEN ReadWord(psram_data, s.ra) ELSE read_data_view
        /\ psram_data' =
              IF doWrite THEN WriteWord(psram_data, s.wa, s.wd)
              ELSE psram_data
        /\ psram_evals' = BoolToInt(doRead) + BoolToInt(doWrite)
        /\ idle_hi' = IF s.idle THEN idle_hi + 1 ELSE idle_hi
        /\ idle_lo' = IF s.idle THEN idle_lo ELSE idle_lo + 1
        /\ psram_sig' = s
        /\ psram_calls' = psram_calls + 1
        /\ psram_before' = psram_data
        /\ psram_expect' = IF doRead THEN shadow[s.ra] ELSE NoWord
        /\ shadow' =
              IF doWrite
              THEN [a \in Addrs |->
                       IF a = s.wa THEN s.wd
                       ELSE IF a - s.wa \in (-3)..3 THEN NoWord
                       ELSE shadow[a]]
              ELSE shadow

PSRAMPostEdgeWriteFirst(clk, s) ==
    LET doRead  == clk /\ s.rd
        doWrite == clk /\ s.wr
    IN  /\ psram_data' =
              IF doWrite THEN WriteWord(psram_data, s.wa, s.wd)
              ELSE psram_data
        /\ read_data_view' =
              IF doRead THEN ReadWord(psram_data', s.ra) ELSE read_data_view
        /\ psram_evals' = BoolToInt(doRead) + BoolToInt(doWrite)
        /\ idle_hi' = IF s.idle THEN idle_hi + 1 ELSE idle_hi
        /\ idle_lo' = IF s.idle THEN idle_lo ELSE idle_lo + 1
        /\ psram_sig' = s
        /\ psram_calls' = psram_calls + 1
        /\ psram_before' = psram_data
        /\ psram_expect' = IF doRead THEN shadow[s.ra] ELSE NoWord
        /\ shadow' =
              IF doWrite
              THEN [a \in Addrs |->
                       IF a = s.wa THEN s.wd
                       ELSE IF a - s.wa \in (-3)..3 THEN NoWord
                       ELSE shadow[a]]
              ELSE shadow

\* PSRAMDriver::post_edge with dut->clk_sync = clk and DUT outputs s
PSRAMPostEdge(clk, s) ==
    LET doRead  == clk /\ s.rd
        doWrite == clk /\ s.wr
    IN  /\ read_data_view' =
              IF doRead THEN ReadWord(psram_data, s.ra) ELSE read_data_view
        /\ psram_data' =
              IF doWrite THEN WriteWord(psram_data, s.wa, s.wd)
              ELSE psram_data
        /\ psram_evals' = BoolToInt(doRead) + BoolToInt(doWrite)
        /\ idle_hi' = IF s.idle THEN idle_hi + 1 ELSE idle_hi
        /\ idle_lo' = IF s.idle THEN idle_lo ELSE idle_lo + 1
        /\ psram_sig' = s
        /\ psram_calls' = psram_calls + 1
        \* history of the words stored, kept beside the image
        /\ psram_before' = psram_data
        /\ psram_expect' = IF doRead THEN shadow[s.ra] ELSE NoWord
        /\ shadow' =
              IF doWrite
              THEN [a \in Addrs |->
                       IF a = s.wa THEN s.wd
                       ELSE IF a - s.wa \in (-3)..3 THEN NoWord
                       ELSE shadow[a]]
              ELSE shadow

MemInit0 ==
    /\ psram_data = [i \in 0..(MemBytes - 1) |-> 0]
    /\ read_data_view = U32(0, 0)
    /\ idle_lo = 0
    /\ idle_hi = 0
    /\ clk_sync = FALSE
    /\ psram_sig = PsramQuiet
    /\ psram_evals = 0
    /\ psram_calls = 0
    /\ shadow = [a \in Addrs |-> NoWord]
    /\ psram_expect = NoWord
    /\ psram_before = [i \in 0..(MemBytes - 1) |-> 0]

\* the scheduler's sync-domain block: toggle clk_sync, then post_edge
SyncEdge ==
    /\ UNCHANGED <<dviVars, i2sVars, schedVars>>
    /\ psram_calls < MaxMemCalls
    /\ clk_sync' = ~clk_sync
    /\ \E s \in PsramSignals(~clk_sync) : PSRAMPostEdge(~clk_sync, s)

-----------------------------------------------------------------------------
(* DVIDriver *)

ImageBytes == DVI_H_ACTIVE * DVI_V_ACTIVE * 3

\* data-enable ticks explored after one vsync: two frames and one more
MaxDviTicks == 2 * DVI_H_ACTIVE * DVI_V_ACTIVE + 1

\* frames counted before the exploration stops
FrameCap == DVI_H_ACTIVE * DVI_V_ACTIVE + 2

\* The DUT is a test-pattern source: the colour of the k-th data-enable
\* tick after vsync (k from 0) is a fixed function of k, the three
\* channels differing.
PixelColour(k) == <<(k + 1) % 256, (k + 101) % 256, (k + 201) % 256>>

DviSignals ==
    {s \in [vsync : BOOLEAN, de : BOOLEAN, rgb : {PixelColour(dvi_n),
                                                  PixelColour(0)}] :
        s.rgb = PixelColour(IF s.vsync THEN 0 ELSE dvi_n)}

DviQuiet == [vsync |-> FALSE, de |-> FALSE, rgb |-> <<0, 0, 0>>]

\* what a write outside the malloc'ed buffer can do: land in memory that
\* is not the image (execution continues) or kill the process
UBOutcomes == {"continue", "crash"}

\* the three stores image_data[idx+0..2] = r, g, b
StorePixel(img, idx, rgb) ==
    [i \in DOMAIN img |->
        IF i \in idx..(idx + 2) THEN rgb[i - idx + 1] ELSE img[i]]

\* DVIDriver::post_edge with dut->clk_dvi = clk and DUT outputs s
DVIPostEdge(clk, s, ub) ==
    LET x0 == IF s.vsync THEN 0 ELSE x
        y0 == IF s.vsync THEN 0 ELSE y
        x1 == x0 + 1
        x2 == IF x1 >= DVI_H_ACTIVE THEN 0 ELSE x1
        y2 == IF x1 >= DVI_H_ACTIVE THEN y0 + 1 ELSE y0
        idx == y2 * DVI_H_ACTIVE * 3 + x2 * 3
    IN  IF ~clk
        THEN UNCHANGED <<x, y, frames, image_data, dvi_fault>> /\ dvi_wr' = -1
        ELSE IF ~s.de
        THEN /\ x' = x0 /\ y' = y0
             /\ UNCHANGED <<frames, image_data, dvi_fault>>
             /\ dvi_wr' = -1
        ELSE /\ x' = x2 /\ y' = y2
             /\ frames' = IF y2 >= DVI_V_ACTIVE THEN frames + 1 ELSE frames
             /\ dvi_wr' = idx
             /\ IF idx + 2 < ImageBytes
                THEN /\ image_data' = StorePixel(image_data, idx, s.rgb)
                     /\ dvi_fault' = FALSE
                ELSE /\ image_data' = image_data
                     /\ dvi_fault' = (ub = "crash")

DviInit0 ==
    /\ x = 0 /\ y = 0 /\ frames = 0
    /\ image_data = [i \in 0..(ImageBytes - 1) |-> 0]
    /\ clk_dvi = FALSE
    /\ dvi_sig = DviQuiet
    /\ dvi_fault = FALSE
    /\ dvi_n = 0
    /\ dvi_synced = FALSE
    /\ frames_at_sync = 0
    /\ dvi_wr = -1

\* the DUT side of one pixel-clock rising phase: its pixel counter and the
\* history of the frame counter at vsync
DviSource(clk, s) ==
    /\ dvi_sig' = s
    /\ dvi_n' = IF ~clk THEN dvi_n
                ELSE (IF s.vsync THEN 0 ELSE dvi_n) + BoolToInt(s.de)
    /\ dvi_synced' = (dvi_synced \/ (clk /\ s.vsync))
    /\ frames_at_sync' = IF clk /\ s.vsync THEN frames ELSE frames_at_sync

\* the scheduler's DVI-domain block: toggle clk_dvi, then post_edge
DviEdge ==
    /\ UNCHANGED <<memVars, i2sVars, schedVars>>
    /\ ~dvi_fault /\ dvi_n < MaxDviTicks /\ frames < FrameCap
    /\ clk_dvi' = ~clk_dvi
    /\ \E s \in DviSignals : \E ub \in UBOutcomes :
          DVIPostEdge(~clk_dvi, s, ub) /\ DviSource(~clk_dvi, s)

-----------------------------------------------------------------------------
(* I2SDriver *)

N_CHANNELS == 4
SLOT_BITS == 32
SAMPLE_BITS == 16

Chans == 0..(N_CHANNELS - 1)

\* conversion of an integer to int16_t
ToInt16(v) == LET m == v % Pow2(16) IN IF m >= Pow2(15) THEN m - Pow2(16) ELSE m

\* current_channel = 2 (i2s.h) or 0 (sim_dsp_core.cpp) on an lrck rise
StartSlot(v) == IF v = "up" THEN 2 ELSE 0

\* the slot after c: (c + 1) % N_CHANNELS, or counting down with wrap
NextSlot(v, c) ==
    IF v = "up" THEN (c + 1) % N_CHANNELS
    ELSE IF c = 0 THEN N_CHANNELS - 1 ELSE c - 1

ChannelInit == [inject_queue |-> <<>>, captured |-> <<>>,
                current_tx_sample |-> 0, current_rx_sample |-> U32(0, 0),
                tx_active |-> FALSE]

StartChannelTransmissionKeepsActive(chs, c) ==
    IF chs[c].inject_queue # <<>>
    THEN [chs EXCEPT ![c].current_tx_sample = Head(chs[c].inject_queue),
                     ![c].inject_queue = Tail(chs[c].inject_queue),
                     ![c].tx_active = TRUE]
    ELSE chs

\* I2SDriver::start_channel_transmission
StartChannelTransmission(chs, c) ==
    IF chs[c].inject_queue # <<>>
    THEN [chs EXCEPT ![c].current_tx_sample = Head(chs[c].inject_queue),
                     ![c].inject_queue = Tail(chs[c].inject_queue),
                     ![c].tx_active = TRUE]
    ELSE [chs EXCEPT ![c].tx_active = FALSE]

\* (acc << 1) | bit on a uint32_t
ShiftIn(acc, bit) ==
    U32((acc[1] * 2 + acc[2] \div Pow2(15)) % Pow2(16),
        (acc[2] * 2 + bit) % Pow2(16))

CapturedValueNoCorrection(acc) == ToInt16(ToInt16(acc[2]) * 2)

\* the value handle_rx_bit appends for the accumulator acc:
\* (acc << 16) >> 16 keeps the low 16 bits, the cast to int16_t gives them
\* their sign, then the threshold correction and the left shift by one
CapturedValue(acc) ==
    LET s0 == ToInt16(acc[2])
        s1 == ToInt16(IF s0 > 16384 THEN s0 - 32769 ELSE s0)
    IN  ToInt16(s1 * 2)

\* I2SDriver::handle_rx_bit
HandleRxBit(chs, c, bc, sdin) ==
    IF bc < SAMPLE_BITS
    THEN LET acc == ShiftIn(chs[c].current_rx_sample, sdin % 2)
         IN  IF bc = SAMPLE_BITS - 1
             THEN [chs EXCEPT
                      ![c].captured = Append(chs[c].captured,
                                             CapturedValue(acc)),
                      ![c].current_rx_sample = U32(0, 0)]
             ELSE [chs EXCEPT ![c].current_rx_sample = acc]
    ELSE chs

TxBitMsbFirst(sample, bc) == (sample \div Pow2(SAMPLE_BITS - 1 - bc)) % 2

\* (current_tx_sample >> (SAMPLE_BITS - bit_counter)) & 1, the sample
\* promoted to int and shifted arithmetically
TxBit(sample, bc) == (sample \div Pow2(SAMPLE_BITS - bc)) % 2

\* I2SDriver::handle_tx_bit: the new value of dut->i2s_sdout1
HandleTxBit(cs, bc) ==
    IF bc < SAMPLE_BITS /\ cs.tx_active THEN TxBit(cs.current_tx_sample, bc)
    ELSE 0

FrameSyncKeepsCounter(st, v) ==
    [ch |-> StartSlot(v), bc |-> st.bc,
     chs |-> StartChannelTransmission(st.chs, StartSlot(v)),
     starts |-> Append(st.starts, StartSlot(v))]

\* post_edge, the lrck rising edge branch
FrameSync(st, v) ==
    [ch |-> StartSlot(v), bc |-> 0,
     chs |-> StartChannelTransmission(st.chs, StartSlot(v)),
     starts |-> Append(st.starts, StartSlot(v))]

BitClockFallOffByOne(st, v) ==
    IF st.bc + 1 > SLOT_BITS
    THEN [ch |-> NextSlot(v, st.ch), bc |-> 0,
          chs |-> StartChannelTransmission(st.chs, NextSlot(v, st.ch)),
          starts |-> Append(st.starts, NextSlot(v, st.ch))]
    ELSE [st EXCEPT !.bc = st.bc + 1]

\* post_edge, the bick falling edge branch (slot progression)
BitClockFall(st, v) ==
    IF st.bc + 1 >= SLOT_BITS
    THEN [ch |-> NextSlot(v, st.ch), bc |-> 0,
          chs |-> StartChannelTransmission(st.chs, NextSlot(v, st.ch)),
          starts |-> Append(st.starts, NextSlot(v, st.ch))]
    ELSE [st EXCEPT !.bc = st.bc + 1]

\* I2SDriver::post_edge with DUT outputs s = [lrck, bick, sdin]
I2SPostEdge(s) ==
    LET lrise == s.lrck # last_lrck /\ s.lrck
        fall  == last_bick /\ ~s.bick
        rise  == ~last_bick /\ s.bick
        st0 == [ch |-> current_channel, bc |-> bit_counter,
                chs |-> channels, starts |-> <<>>]
        st1 == IF lrise THEN FrameSync(st0, variant) ELSE st0
        st2 == IF fall THEN BitClockFall(st1, variant) ELSE st1
        chs3 == IF rise THEN HandleRxBit(st2.chs, st2.ch, st2.bc, s.sdin)
                ELSE st2.chs
        since == IF lrise THEN st2.starts ELSE frame_starts \o st2.starts
    IN  /\ current_channel' = st2.ch
        /\ bit_counter' = st2.bc
        /\ channels' = chs3
        /\ i2s_sdout1' = IF fall THEN HandleTxBit(chs3[st2.ch], st2.bc)
                         ELSE i2s_sdout1
        /\ last_lrck' = s.lrck
        /\ last_bick' = s.bick
        /\ i2s_sig' = s
        \* history
        /\ i2s_ev' = [lrise |-> lrise, fall |-> fall, rise |-> rise,
                      ch0 |-> current_channel, bc0 |-> bit_counter,
                      starts |-> st2.starts,
                      nsync |-> IF lrise /\ i2s_ev.nsync < 2
                                THEN i2s_ev.nsync + 1 ELSE i2s_ev.nsync]
        /\ frame_starts' = since
        /\ prev_frame_starts' =
              IF lrise THEN frame_starts ELSE prev_frame_starts
        /\ tx_trace' =
              LET base == IF st2.starts # <<>> THEN <<>> ELSE tx_trace
              IN  IF fall /\ Len(base) < SAMPLE_BITS
                  THEN Append(base, HandleTxBit(chs3[st2.ch], st2.bc))
                  ELSE base
        /\ falls' = IF lrise THEN BoolToInt(fall)
                     ELSE IF fall
                     THEN (falls + 1) % (2 * N_CHANNELS * SLOT_BITS)
                     ELSE falls
        /\ active_empty' =
              IF st2.starts = <<>> THEN active_empty
              ELSE LET c == st2.starts[Len(st2.starts)]
                       n == Cardinality({i \in 1..Len(st2.starts) :
                                            st2.starts[i] = c})
                   IN  Len(channels[c].inject_queue) < n

InjectSampleWrapped(c, v) ==
    /\ channels' = [channels EXCEPT
                        ![c % N_CHANNELS].inject_queue = Append(@, v)]
    /\ injected' = [injected EXCEPT ![c % N_CHANNELS] = Append(@, v)]

\* I2SDriver::inject_sample
InjectSample(c, v) ==
    /\ channels' = IF c < N_CHANNELS
                   THEN [channels EXCEPT
                            ![c].inject_queue = Append(@, v)]
                   ELSE channels
    /\ injected' = IF c < N_CHANNELS
                   THEN [injected EXCEPT ![c] = Append(@, v)]
                   ELSE injected

\* I2SDriver::get_captured_samples
GetCapturedSamples(c) == IF c < N_CHANNELS THEN channels[c].captured ELSE <<>>

I2SQuiet == [lrck |-> FALSE, bick |-> FALSE, sdin |-> 0]

EvNone == [lrise |-> FALSE, fall |-> FALSE, rise |-> FALSE,
           ch0 |-> 0, bc0 |-> 0, starts |-> <<>>, nsync |-> 0]

ApiNone == [op |-> "none", c |-> 0, v |-> 0, ret |-> <<>>]

I2SInit0(variants, phases) ==
    /\ channels = [c \in Chans |-> ChannelInit]
    /\ current_channel = 0
    /\ bit_counter = 0
    /\ last_lrck = FALSE
    /\ last_bick = FALSE
    /\ i2s_sdout1 = 0
    /\ i2s_sig = I2SQuiet
    /\ variant \in variants
    /\ gen_phase \in phases
    /\ gen_n = 0
    /\ injected = [c \in Chans |-> <<>>]
    /\ i2s_ev = EvNone
    /\ frame_starts = <<>>
    /\ prev_frame_starts = <<>>
    /\ active_empty = TRUE
    /\ api = ApiNone
    /\ rx_pattern = 0
    /\ falls = 0
    /\ tx_trace = <<>>

\* the samples of the transmit scenario, given to a channel in this order
Scenario == <<100, -200, 300, -400>>

FrameCalls == 2 * N_CHANNELS * SLOT_BITS

FrameRunCalls == FrameCalls * (MaxInject + 2)

\* A framed Signal Source in loopback: bick toggles on every call, lrck has
\* a period of N_CHANNELS*SLOT_BITS bit clocks and rises on call gen_phase
\* (an even phase: together with a bick falling edge; an odd one: with a
\* bick rising edge), and i2s_sdin1 follows i2s_sdout1 at each evaluation.
FramedSignals(n) ==
    [lrck |-> ((n - gen_phase) % FrameCalls) < (FrameCalls \div 2),
     bick |-> (n % 2 = 1),
     sdin |-> i2s_sdout1]

\* inject_sample calls made before the clocks run, as the harness does
FrameInject ==
    /\ UNCHANGED <<memVars, dviVars, schedVars>>
    /\ gen_n = 0
    /\ \E c \in Chans :
          /\ Len(injected[c]) < MaxInject
          /\ InjectSample(c, Scenario[(Len(injected[c]) % Len(Scenario)) + 1])
    /\ UNCHANGED <<current_channel, bit_counter, last_lrck, last_bick,
                   i2s_sdout1, i2s_sig, variant, gen_phase, gen_n, i2s_ev,
                   frame_starts, prev_frame_starts, active_empty, api,
                   rx_pattern, falls, tx_trace>>

\* the scheduler's audio-domain block against the framed source
FrameEdge ==
    /\ UNCHANGED <<memVars, dviVars, schedVars>>
    /\ gen_n < FrameRunCalls
    /\ I2SPostEdge(FramedSignals(gen_n))
    /\ gen_n' = gen_n + 1
    /\ UNCHANGED <<variant, gen_phase, injected, api, rx_pattern>>

\* post_edge against a Signal Source that drives lrck and bick arbitrarily
\* and holds i2s_sdin1 low, no sample pending
FreeEdge ==
    /\ UNCHANGED <<memVars, dviVars, schedVars>>
    /\ \A c \in Chans : Len(channels[c].captured) < MaxCaptured
    /\ \E l \in BOOLEAN, b \in BOOLEAN :
          I2SPostEdge([lrck |-> l, bick |-> b, sdin |-> 0])
    /\ UNCHANGED <<variant, gen_phase, gen_n, injected, api, rx_pattern>>

\* channel arguments of the API calls (uint8_t): two slots, and two values
\* outside the range
ApiChannels == {1, 2, N_CHANNELS, 255}

\* post_edge calls of an API run: the start slot captures one sample
ApiRunCalls == 2 * SAMPLE_BITS + 4

\* inject_sample at any moment of a run
ApiInject ==
    /\ UNCHANGED <<memVars, dviVars, schedVars>>
    /\ \E c \in ApiChannels : \E v \in {Scenario[1], Scenario[2]} :
          /\ c < N_CHANNELS =>
                Len(injected[1]) + Len(injected[2]) < MaxInject
          /\ InjectSample(c, v)
          /\ api' = [op |-> "inject", c |-> c, v |-> v, ret |-> <<>>]
    /\ UNCHANGED <<current_channel, bit_counter, last_lrck, last_bick,
                   i2s_sdout1, i2s_sig, variant, gen_phase, gen_n, i2s_ev,
                   frame_starts, prev_frame_starts, active_empty,
                   rx_pattern, falls, tx_trace>>

\* get_captured_samples at any moment of a run
ApiGetCaptured ==
    /\ UNCHANGED <<memVars, dviVars, schedVars>>
    /\ \E c \in ApiChannels :
          api' = [op |-> "get", c |-> c, v |-> 0,
                  ret |-> GetCapturedSamples(c)]
    /\ UNCHANGED <<channels, current_channel, bit_counter, last_lrck,
                   last_bick, i2s_sdout1, i2s_sig, variant, gen_phase, gen_n,
                   injected, i2s_ev, frame_starts, prev_frame_starts,
                   active_empty, rx_pattern, falls, tx_trace>>

\* post_edge between the API calls, against the framed source
ApiEdge ==
    /\ UNCHANGED <<memVars, dviVars, schedVars>>
    /\ gen_n < ApiRunCalls
    /\ I2SPostEdge(FramedSignals(gen_n))
    /\ gen_n' = gen_n + 1
    /\ api' = ApiNone
    /\ UNCHANGED <<variant, gen_phase, injected, rx_pattern>>

\* 16-bit patterns a pattern source sends: 0x0000, 0x0001, 0x4000, 0x4001,
\* 0x7FFF, 0x8000, 0xAAAA, 0xFFFF
RxPatterns == {0, 1, 16384, 16385, 32767, 32768, 43690, 65535}

\* bit 15-k of pattern p: the bit the source presents at bit counter k
PatternBit(p, k) == (p \div Pow2(15 - k)) % 2

\* post_edge calls of a pattern run: two slots
RxRunCalls == 4 * SLOT_BITS

\* post_edge against a framed Signal Source that sends one pattern per
\* slot, MSB first in the first 16 bit periods of the slot, and anything in
\* the rest of the slot
RxEdge ==
    /\ UNCHANGED <<memVars, dviVars, schedVars>>
    /\ gen_n < RxRunCalls
    /\ LET f == FramedSignals(gen_n)
           rising == ~last_bick /\ f.bick
       IN  \E p \in (IF rising /\ bit_counter = 0 THEN RxPatterns
                      ELSE {rx_pattern}) :
           \E pad \in (IF rising THEN {0, 1} ELSE {0}) :
               /\ rx_pattern' = p
               /\ I2SPostEdge([f EXCEPT !.sdin =
                                  IF bit_counter < SAMPLE_BITS
                                  THEN PatternBit(p, bit_counter) ELSE pad])
    /\ gen_n' = gen_n + 1
    /\ UNCHANGED <<variant, gen_phase, injected, api>>

-----------------------------------------------------------------------------
(* The scheduler loop of main *)

NS_IN_S == 1000000000

\* the clock frequencies, build options of the harness
SYNC_CLK_HZ == 60000000
DVI_CLK_HZ == 74250000
AUDIO_CLK_HZ == 12288000

Domains == {"dvi", "sync", "audio"}

\* ns_in_<domain>_cycle = ns_in_s / <DOMAIN>_CLK_HZ
NsInCycle(d) ==
    CASE d = "dvi" -> NS_IN_S \div DVI_CLK_HZ
      [] d = "sync" -> NS_IN_S \div SYNC_CLK_HZ
      [] d = "audio" -> NS_IN_S \div AUDIO_CLK_HZ

DomainDueFullPeriod(d, ts) == ts % NsInCycle(d) = 0

\* timestamp_ns % (ns_in_<domain>_cycle/2) == 0
DomainDue(d, ts) == ts % (NsInCycle(d) \div 2) = 0

Clocks == [dvi |-> clk_dvi, sync |-> clk_sync, audio |-> clk_audio]

NoFlips == [d \in Domains |-> 0]

NotSeen == <<>>

NoReads == [d \in Domains |-> {}]

\* the DUT input a domain's toggle writes
ClockInput(d) ==
    CASE d = "dvi" -> "clk_dvi" [] d = "sync" -> "clk_sync"
      [] d = "audio" -> "clk_audio"

PcAfterToggleDeferred(d) ==
    CASE d = "dvi" -> "sync" [] d = "sync" -> "audio" [] d = "audio" -> "advance"

\* where control goes after a toggle: into the domain's own handler call
PcAfterToggle(d) ==
    CASE d = "dvi" -> "dvi_edge" [] d = "sync" -> "sync_edge"
      [] d = "audio" -> "audio_edge"

\* the statement after a domain's block
PcAfterBlock(d) ==
    CASE d = "dvi" -> "sync" [] d = "sync" -> "audio" [] d = "audio" -> "advance"

SchedInit0 ==
    /\ time_ps = 2
    /\ timestamp_ns = 0
    /\ clk_audio = FALSE
    /\ pc = "while"
    /\ got_finish = FALSE
    /\ flips = NoFlips
    /\ total_flips = NoFlips
    /\ step_clk = [dvi |-> FALSE, sync |-> FALSE, audio |-> FALSE]
    /\ seen = [d \in Domains |-> NotSeen]
    /\ order = <<>>
    /\ dirty = {}
    /\ read_under = NoReads

\* history of the clock levels: counts every change of level of a step
CountFlips(cd, cs, ca) ==
    LET now == [dvi |-> cd, sync |-> cs, audio |-> ca]
        chg == [d \in Domains |-> BoolToInt(now[d] # Clocks[d])]
    IN  /\ flips' = [d \in Domains |-> flips[d] + chg[d]]
        /\ total_flips' = [d \in Domains |-> total_flips[d] + chg[d]]

\* while (contextp->time() < sim_time && !contextp->gotFinish()), and the
\* step's timestamp
SchedLoop ==
    /\ pc = "while"
    /\ IF time_ps < MaxSimTime /\ ~got_finish
       THEN /\ timestamp_ns' = time_ps \div 1000
            /\ pc' = "dvi"
            /\ flips' = NoFlips
            /\ step_clk' = Clocks
            /\ seen' = [d \in Domains |-> NotSeen]
            /\ order' = <<>>
            \* top->spiflash_data = ...
            /\ dirty' = dirty \cup {"spiflash_data"}
            /\ read_under' = NoReads
       ELSE /\ pc' = "done"
            /\ UNCHANGED <<timestamp_ns, flips, step_clk, seen, order, dirty,
                           read_under>>
    /\ UNCHANGED <<time_ps, clk_audio, got_finish, total_flips>>
    /\ UNCHANGED <<memVars, dviVars, i2sVars>>

SchedToggleSetsHigh(d) ==
    /\ pc = d
    /\ IF DomainDue(d, timestamp_ns)
       THEN /\ clk_dvi' = IF d = "dvi" THEN TRUE ELSE clk_dvi
            /\ clk_sync' = IF d = "sync" THEN TRUE ELSE clk_sync
            /\ clk_audio' = IF d = "audio" THEN TRUE ELSE clk_audio
            /\ pc' = PcAfterToggle(d)
            /\ order' = Append(order, <<d, "toggle">>)
            /\ dirty' = dirty \cup {ClockInput(d)}
       ELSE /\ UNCHANGED <<clk_dvi, clk_sync, clk_audio, order, dirty>>
            /\ pc' = PcAfterBlock(d)
    /\ CountFlips(clk_dvi', clk_sync', clk_audio')
    /\ UNCHANGED <<time_ps, timestamp_ns, got_finish, step_clk, seen,
                   read_under>>

\* the test of a domain's deadline and the toggle of its clock
SchedToggle(d) ==
    /\ pc = d
    /\ IF DomainDue(d, timestamp_ns)
       THEN /\ clk_dvi' = IF d = "dvi" THEN ~clk_dvi ELSE clk_dvi
            /\ clk_sync' = IF d = "sync" THEN ~clk_sync ELSE clk_sync
            /\ clk_audio' = IF d = "audio" THEN ~clk_audio ELSE clk_audio
            /\ pc' = PcAfterToggle(d)
            /\ order' = Append(order, <<d, "toggle">>)
            /\ dirty' = dirty \cup {ClockInput(d)}
       ELSE /\ UNCHANGED <<clk_dvi, clk_sync, clk_audio, order, dirty>>
            /\ pc' = PcAfterBlock(d)
    /\ CountFlips(clk_dvi', clk_sync', clk_audio')
    /\ UNCHANGED <<time_ps, timestamp_ns, got_finish, step_clk, seen,
                   read_under>>

SchedDviToggle ==
    /\ SchedToggle("dvi")
    /\ UNCHANGED <<x, y, frames, image_data, dvi_sig, dvi_fault, dvi_n,
                   dvi_synced, frames_at_sync, dvi_wr>>
    /\ UNCHANGED <<psram_data, read_data_view, idle_lo, idle_hi, psram_sig,
                   psram_evals, psram_calls, shadow, psram_expect,
                   psram_before>>
    /\ UNCHANGED i2sVars

SchedSyncToggle ==
    /\ SchedToggle("sync")
    /\ UNCHANGED <<x, y, frames, image_data, dvi_sig, dvi_fault, dvi_n,
                   dvi_synced, frames_at_sync, dvi_wr>>
    /\ UNCHANGED <<psram_data, read_data_view, idle_lo, idle_hi, psram_sig,
                   psram_evals, psram_calls, shadow, psram_expect,
                   psram_before>>
    /\ UNCHANGED i2sVars

SchedAudioToggle ==
    /\ SchedToggle("audio")
    /\ UNCHANGED <<x, y, frames, image_data, dvi_sig, dvi_fault, dvi_n,
                   dvi_synced, frames_at_sync, dvi_wr>>
    /\ UNCHANGED <<psram_data, read_data_view, idle_lo, idle_hi, psram_sig,
                   psram_evals, psram_calls, shadow, psram_expect,
                   psram_before>>
    /\ UNCHANGED i2sVars

\* what every handler call of the loop leaves alone, and its history
SchedHandler(d) ==
    /\ pc = PcAfterToggle(d)
    /\ pc' = PcAfterBlock(d)
    /\ seen' = [seen EXCEPT ![d] = Clocks]
    /\ order' = Append(order, <<d, "edge">>)
    /\ UNCHANGED <<time_ps, timestamp_ns, clk_audio, got_finish, flips,
                   total_flips, step_clk>>

\* dvi_driver.post_edge(), the Signal Source holding its outputs low: the
\* outputs are read on the high phase
SchedDviHandler ==
    /\ SchedHandler("dvi")
    /\ read_under' = [read_under EXCEPT
                          !["dvi"] = IF clk_dvi THEN dirty ELSE {}]
    /\ dirty' = dirty
    /\ DVIPostEdge(clk_dvi, DviQuiet, "continue")
    /\ DviSource(clk_dvi, DviQuiet)
    /\ UNCHANGED <<clk_dvi, memVars, i2sVars>>

\* psram_driver.post_edge(); top->eval(); and the UART print-out
SchedSyncHandler ==
    /\ SchedHandler("sync")
    /\ read_under' = [read_under EXCEPT !["sync"] = dirty]
    /\ dirty' = {}
    /\ PSRAMPostEdge(clk_sync, PsramQuiet)
    /\ UNCHANGED <<clk_sync, dviVars, i2sVars>>

\* i2s_driver.post_edge()
SchedAudioHandler ==
    /\ SchedHandler("audio")
    /\ read_under' = [read_under EXCEPT !["audio"] = dirty]
    /\ I2SPostEdge(I2SQuiet)
    /\ dirty' = IF i2s_ev'.fall THEN dirty \cup {"i2s_sdout1"} ELSE dirty
    /\ UNCHANGED <<variant, gen_phase, gen_n, injected, api, rx_pattern>>
    /\ UNCHANGED <<memVars, dviVars>>

SchedAdvanceStalled ==
    /\ pc = "advance"
    /\ time_ps' = time_ps
    /\ got_finish' \in {got_finish, TRUE}
    /\ pc' = "while"
    /\ dirty' = {}
    /\ UNCHANGED <<timestamp_ns, clk_audio, flips, total_flips, step_clk,
                   seen, order, read_under>>
    /\ UNCHANGED <<memVars, dviVars, i2sVars>>

\* contextp->timeInc(1000); top->eval(): the evaluation may raise finish
SchedAdvance ==
    /\ pc = "advance"
    /\ time_ps' = time_ps + 1000
    /\ got_finish' \in {got_finish, TRUE}
    /\ pc' = "while"
    /\ dirty' = {}
    /\ UNCHANGED <<timestamp_ns, clk_audio, flips, total_flips, step_clk,
                   seen, order, read_under>>
    /\ UNCHANGED <<memVars, dviVars, i2sVars>>

Init == MemInit0 /\ DviInit0 /\ I2SInit0({"up"}, {0}) /\ SchedInit0

DviNext == DviEdge

SchedNext ==
    \/ SchedLoop
    \/ SchedDviToggle \/ SchedDviHandler
    \/ SchedSyncToggle \/ SchedSyncHandler
    \/ SchedAudioToggle \/ SchedAudioHandler
    \/ SchedAdvance

SpecSched == Init /\ [][SchedNext]_vars

\* the loop is sequential code: a step that can be taken is taken
SpecSchedFair == SpecSched /\ WF_vars(SchedNext)

FrameInit == MemInit0 /\ DviInit0 /\ I2SInit0({"up"}, {0, 1}) /\ SchedInit0

FrameNext == FrameInject \/ FrameEdge

SpecI2SFrame == FrameInit /\ [][FrameNext]_vars

FreeInit == MemInit0 /\ DviInit0 /\ I2SInit0({"up", "down"}, {0}) /\ SchedInit0

FreeNext == FreeEdge

SpecI2SFree == FreeInit /\ [][FreeNext]_vars

SpecDvi == Init /\ [][DviNext]_vars

RxNext == RxEdge

SpecI2SRx == FreeInit /\ [][RxNext]_vars

ApiNext == ApiInject \/ ApiGetCaptured \/ ApiEdge

SpecI2SApi == Init /\ [][ApiNext]_vars

-----------------------------------------------------------------------------
(* The memory model: specification and properties *)

MemNext == SyncEdge

SpecMem == Init /\ [][MemNext]_vars

\* C1: round-trip law.  Whenever a rising-phase call services a read at an
\* address A where a word W was stored by an earlier serviced write and no
\* serviced write has touched bytes A..A+3 since, read_data_view is W.
C1_RoundTrip ==
    (clk_sync /\ psram_sig.rd /\ psram_expect # NoWord)
        => read_data_view = psram_expect

\* 0xDEADBEEF stored at address 0, a later write to the disjoint word, then
\* a read of address 0 that returns 0xDEADBEEF
C1_Witness ==
    /\ clk_sync /\ psram_sig.rd /\ psram_sig.ra = 0 /\ ~psram_sig.wr
    /\ psram_expect = U32(57005, 48879)
    /\ read_data_view = U32(57005, 48879)
    /\ shadow[MemBytes - 4] = U32(258, 772)

\* C12: a rising-phase call that finds read_ready and write_ready both set
\* services both, the read first: read_data_view is the little-endian word
\* of the four bytes that were at the read address before the call, and
\* after the call the four bytes at the write address are those of
\* write_data.
C12_ReadThenWrite ==
    (clk_sync /\ psram_sig.rd /\ psram_sig.wr)
        => /\ \A i \in 0..3 :
                 ByteOf(read_data_view, i) = psram_before[psram_sig.ra + i]
           /\ \A i \in 0..3 :
                 psram_data[psram_sig.wa + i] = ByteOf(psram_sig.wd, i)
           /\ psram_evals = 2

\* a read and a write of the same address in one call, the word read being
\* an earlier non-zero word that differs from the word written
C12_Witness ==
    /\ clk_sync /\ psram_sig.rd /\ psram_sig.wr
    /\ psram_sig.ra = psram_sig.wa
    /\ read_data_view = U32(57005, 48879)
    /\ psram_sig.wd = U32(258, 772)
    /\ ReadWord(psram_data, psram_sig.wa) = U32(258, 772)

\* C19: a post_edge call with clk_sync low changes neither the memory
\* image nor read_data_view and evaluates nothing, whatever read_ready and
\* write_ready are; and so does a call with clk_sync high that finds
\* neither of them set.
C19_RisingPhaseOnly ==
    [][(psram_calls' = psram_calls + 1
          /\ (~clk_sync' \/ (~psram_sig'.rd /\ ~psram_sig'.wr)))
       => /\ psram_data' = psram_data
          /\ read_data_view' = read_data_view
          /\ psram_evals' = 0]_vars

\* a call on the low phase with both ready flags set, where a read would
\* have changed read_data_view and a write the memory image
C19_Witness ==
    /\ ~clk_sync /\ psram_calls > 0
    /\ psram_sig.rd /\ psram_sig.wr
    /\ psram_evals = 0
    /\ psram_data = psram_before
    /\ read_data_view # ReadWord(psram_data, psram_sig.ra)
    /\ ReadWord(psram_data, psram_sig.wa) # psram_sig.wd
    /\ ReadWord(psram_data, psram_sig.ra) # U32(0, 0)

\* bits 8i..8i+7 of a 32-bit word kept as <<high half, low half>>
BitsOfWord(w, i) ==
    CASE i = 0 -> w[2] % 256
      [] i = 1 -> w[2] \div 256
      [] i = 2 -> w[1] % 256
      [] i = 3 -> w[1] \div 256

\* C23: frame effect.  After a call that serviced a write at address A,
\* byte A+i of the image is bits 8i..8i+7 of write_data for i in 0..3 and
\* every other byte is what it was before the call; a call that serviced
\* no write, a serviced read included, leaves every byte as it was.  So a
\* word at B with |A - B| >= 4 reads back as before, and of a word at B
\* with 0 < |A - B| < 4 the bytes outside A..A+3 are as before.
C23_FrameEffect ==
    LET wrote == clk_sync /\ psram_sig.wr
        A == psram_sig.wa
    IN  /\ \A i \in DOMAIN psram_data :
              psram_data[i] =
                  IF wrote /\ i \in A..(A + 3)
                  THEN BitsOfWord(psram_sig.wd, i - A)
                  ELSE psram_before[i]
        /\ wrote =>
              \A B \in 0..(MemBytes - 4) :
                  /\ (B - A >= 4 \/ A - B >= 4) =>
                        ReadWord(psram_data, B) = ReadWord(psram_before, B)
                  /\ \A j \in 0..3 :
                        (B + j) \notin A..(A + 3) =>
                            psram_data[B + j] = psram_before[B + j]

\* 0x01020304 written at address 1 over 0xDEADBEEF stored at address 0, in
\* a call that also serviced a read: byte 0 keeps 0xEF and bytes 1..4
\* hold 04 03 02 01
C23_Witness ==
    /\ clk_sync /\ psram_sig.wr /\ psram_sig.rd
    /\ psram_sig.wa = 1
    /\ psram_sig.wd = U32(258, 772)
    /\ ReadWord(psram_before, 0) = U32(57005, 48879)
    /\ psram_data[0] = 239
    /\ psram_data[1] = 4 /\ psram_data[4] = 1

-----------------------------------------------------------------------------
(* The video capture model: properties *)

\* the pixel stored at linear position k of the frame buffer
PixelAt(img, k) == <<img[3 * k], img[3 * k + 1], img[3 * k + 2]>>

ActivePixels == DVI_H_ACTIVE * DVI_V_ACTIVE

\* C6: single frame.  After a vsync reset followed by exactly
\* DVI_H_ACTIVE x DVI_V_ACTIVE data-enable ticks the frame counter has grown
\* by exactly 1 and every position of the active window holds the colour
\* presented on its tick (the k-th tick belongs to the k-th position).
C6_SingleFrame ==
    (dvi_synced /\ dvi_n = ActivePixels /\ ~dvi_fault)
        => /\ frames = frames_at_sync + 1
           /\ \A k \in 0..(ActivePixels - 1) :
                 PixelAt(image_data, k) = PixelColour(k)

\* C7: every frame-buffer write lies inside the active window, and a call
\* with data-enable low writes nothing.
C7_WritesInWindow ==
    /\ dvi_wr # -1 => dvi_wr + 2 < ImageBytes
    /\ (~dvi_sig.de) => dvi_wr = -1

\* C8: back-to-back frames.  One vsync and then exactly
\* 2 x DVI_H_ACTIVE x DVI_V_ACTIVE data-enable ticks complete exactly 2
\* frames.
C8_TwoFrames ==
    (dvi_synced /\ dvi_n = 2 * ActivePixels /\ ~dvi_fault)
        => frames = frames_at_sync + 2

\* C18: vsync reset.  After every rising-phase call that saw dvi_vsync the
\* cursor is (0, 0), with or without dvi_de in that call; and the first
\* pixel accepted after a vsync is stored at position (0, 0), byte index 0.
C18_VsyncReset ==
    /\ (clk_dvi /\ dvi_sig.vsync /\ ~dvi_fault) => (x = 0 /\ y = 0)
    /\ (dvi_synced /\ dvi_n = 1 /\ dvi_wr # -1) => dvi_wr = 0

-----------------------------------------------------------------------------
(* The audio driver: properties *)

NonSilent(seq) == SelectSeq(seq, LAMBDA v : v # 0)

\* the accumulator after the bits the transmit path drives for sample s at
\* bit counters k..SAMPLE_BITS-1 have been shifted in
RECURSIVE LoopAcc(_, _, _)
LoopAcc(s, k, acc) ==
    IF k >= SAMPLE_BITS THEN acc
    ELSE LoopAcc(s, k + 1, ShiftIn(acc, TxBit(s, k)))

\* the value a loopback captures for sample s of channel c: the start slot
\* is entered with the bit counter at 1, every other slot at 0
LoopImage(c, s) ==
    CapturedValue(LoopAcc(s, IF c = StartSlot(variant) THEN 1 ELSE 0,
                          U32(0, 0)))

\* C2: loopback.  At the end of a framed loopback run the samples captured
\* for every channel, silence apart, are the images of the samples injected
\* into it, in the same order, none lost or duplicated.
C2_Loopback ==
    gen_n = FrameRunCalls
        => \A c \in Chans :
              NonSilent(GetCapturedSamples(c))
                  = [i \in 1..Len(injected[c]) |-> LoopImage(c, injected[c][i])]

\* bit 15-k of the 16-bit two's-complement encoding of s
EncodingBit(s, k) == ((s % Pow2(16)) \div Pow2(15 - k)) % 2

\* C3: transmit encoding.  On every bick falling edge the bit driven at bit
\* counter k < 16 of a slot with an active sample s is bit 15-k of the
\* 16-bit two's-complement encoding of s, and 0 for k >= 16.
C3_TxEncoding ==
    i2s_ev.fall
        => IF bit_counter < SAMPLE_BITS /\ channels[current_channel].tx_active
           THEN i2s_sdout1 = EncodingBit(
                    channels[current_channel].current_tx_sample, bit_counter)
           ELSE i2s_sdout1 = 0

\* C4: four setups per frame.  When an lrck rising edge closes a frame,
\* start_channel_transmission has been invoked exactly once for each of
\* the slots 0..3 since the previous lrck rising edge.
C4_FourSetups ==
    (i2s_ev.lrise /\ i2s_ev.nsync = 2)
        => /\ Len(prev_frame_starts) = N_CHANNELS
           /\ {prev_frame_starts[i] : i \in 1..Len(prev_frame_starts)} = Chans

\* C5 as claimed: after a call that saw an lrck rising edge the slot is the
\* start slot and the bit counter is 0, whatever bick did in that call.
C5_ResetAsClaimed ==
    i2s_ev.lrise
        => current_channel = StartSlot(variant) /\ bit_counter = 0

\* C5 amended: after a call that saw an lrck rising edge the slot is the
\* start slot, and the bit counter is 0 if the call saw no bick falling
\* edge and 1 if it saw one (the edge is counted after the reset).
C5_Reset ==
    i2s_ev.lrise
        => /\ current_channel = StartSlot(variant)
           /\ bit_counter = BoolToInt(i2s_ev.fall)

\* an lrck rise together with a bick falling edge, from the last bit of
\* another slot
C5_Witness ==
    /\ i2s_ev.lrise /\ i2s_ev.fall
    /\ i2s_ev.bc0 = SLOT_BITS - 1 /\ i2s_ev.ch0 # StartSlot(variant)
    /\ current_channel = StartSlot(variant) /\ bit_counter = 1

\* C13: silence.  While the active slot is one whose queue was empty when
\* it became active, every bick falling edge drives 0 on i2s_sdout1; and a
\* channel that was never given a sample drives 0 on every falling edge of
\* its slot.
C13_Silence ==
    i2s_ev.fall
        => /\ active_empty => i2s_sdout1 = 0
           /\ injected[current_channel] = <<>> => i2s_sdout1 = 0

\* a slot whose queue has run out: the sample sent last has a 1 at this bit
\* counter, and 0 is driven
C13_Witness ==
    /\ i2s_ev.fall
    /\ active_empty
    /\ injected[current_channel] # <<>>
    /\ bit_counter < SAMPLE_BITS
    /\ TxBit(channels[current_channel].current_tx_sample, bit_counter) = 1
    /\ i2s_sdout1 = 0

\* the driver's own state
DriverState == <<channels, current_channel, bit_counter, last_lrck, last_bick,
                 i2s_sdout1>>

\* C14: inject_sample with a channel of 4 or more changes nothing of the
\* driver; with a channel in 0..3 it appends the value at the tail of that
\* channel's queue and changes nothing else; get_captured_samples changes
\* nothing and returns the empty sequence for a channel of 4 or more (the
\* channel's captured sequence otherwise).
C14_ChannelRange ==
    [][/\ (api'.op = "inject" /\ api'.c >= 4) => UNCHANGED DriverState
       /\ (api'.op = "inject" /\ api'.c < 4) =>
             /\ \A c \in Chans :
                   /\ channels'[c].inject_queue =
                         IF c = api'.c
                         THEN channels[c].inject_queue \o <<api'.v>>
                         ELSE channels[c].inject_queue
                   /\ channels'[c].captured = channels[c].captured
                   /\ channels'[c].current_tx_sample =
                         channels[c].current_tx_sample
                   /\ channels'[c].current_rx_sample =
                         channels[c].current_rx_sample
                   /\ channels'[c].tx_active = channels[c].tx_active
             /\ UNCHANGED <<current_channel, bit_counter, last_lrck,
                            last_bick, i2s_sdout1>>
       /\ api'.op = "get" =>
             /\ UNCHANGED DriverState
             /\ api'.c >= 4 => api'.ret = <<>>
             /\ api'.c < 4 => api'.ret = channels[api'.c].captured]_vars

\* inject_sample(255, v) in the middle of a run, a sample pending and a
\* sample captured
C14_Witness ==
    /\ api.op = "inject" /\ api.c = 255
    /\ channels[2].captured # <<>>
    /\ channels[1].inject_queue # <<>>
    /\ injected[2] # <<>>

\* the pattern sign-extended to a signed 16-bit value and shifted left by
\* one, modulo 2^16
ClaimedCapture(p) == ToInt16(2 * ToInt16(p))

\* the same with 32769 taken off a sign-extended value above 16384 before
\* the shift
ThresholdCapture(p) ==
    LET v == ToInt16(p)
    IN  ToInt16(2 * (IF v > 16384 THEN v - 32769 ELSE v))

\* the receive path of a call, the captured value being given by Value:
\* a rising edge at a bit counter below 16 shifts the bit into the active
\* slot's accumulator, the one at 15 appends Value(pattern) to the slot's
\* captured sequence and clears the accumulator, and no other call appends
\* to any captured sequence or changes an accumulator
RxStep(Value(_)) ==
    LET c == current_channel'
        isRx == i2s_ev'.rise /\ bit_counter' < 16
        isLast == i2s_ev'.rise /\ bit_counter' = 15
    IN  /\ \A d \in Chans :
              channels'[d].captured =
                  IF isLast /\ d = c
                  THEN channels[d].captured \o <<Value(rx_pattern')>>
                  ELSE channels[d].captured
        /\ \A d \in Chans :
              channels'[d].current_rx_sample =
                  IF isLast /\ d = c THEN U32(0, 0)
                  ELSE IF isRx /\ d = c
                  THEN U32((2 * channels[d].current_rx_sample[1]
                            + channels[d].current_rx_sample[2] \div 32768)
                               % 65536,
                           (2 * channels[d].current_rx_sample[2]
                            + PatternBit(rx_pattern', bit_counter')) % 65536)
                  ELSE channels[d].current_rx_sample

\* C15 as claimed: the captured value is, for every pattern, the pattern
\* sign-extended and shifted left by one.
C15_RxAsClaimed == [][RxStep(ClaimedCapture)]_vars

\* C15 amended: bits are shifted in MSB first at bit counters below 16;
\* at bit counter 15 the value appended is the sign-extended pattern
\* shifted left by one modulo 2^16, except that 32769 is first taken off a
\* sign-extended value above 16384 (patterns 0x4001..0x7FFF); the
\* accumulator is 0 afterwards, and rising edges at bit counters of 16 and
\* more capture nothing.
C15_RxConversion == [][RxStep(ThresholdCapture)]_vars

\* the pattern 0x7FFF has just been captured as -4, and not as -2
C15_Witness ==
    /\ i2s_ev.rise /\ bit_counter = 15
    /\ rx_pattern = 32767
    /\ channels[current_channel].captured # <<>>
    /\ channels[current_channel].captured[
           Len(channels[current_channel].captured)] = -4
    /\ channels[current_channel].current_rx_sample = U32(0, 0)

\* the slot the falling edges are counted from: the start slot once an
\* lrck rising edge has been seen, the constructor's slot 0 before
CycleBase == IF i2s_ev.nsync = 0 THEN 0 ELSE StartSlot(variant)

\* the slot k slot advances after slot c
SlotAfter(c, k) ==
    IF variant = "up" THEN (c + k) % 4 ELSE (c - k) % 4

\* C16: slot progression.  With no lrck rising edge in between, after n
\* bick falling edges from the start slot at bit counter 0 the bit counter
\* is n mod 32 and the slot is the one n div 32 advances after the start
\* slot; the four slots of the progression are 0..3, each once; and after
\* 128 falling edges the slot is the start slot again with bit counter 0.
C16_SlotCycle ==
    /\ bit_counter = falls % 32
    /\ current_channel = SlotAfter(CycleBase, (falls \div 32) % 4)
    /\ {SlotAfter(CycleBase, k) : k \in 0..3} = 0..3
    /\ \A k \in 1..3 : SlotAfter(CycleBase, k) # CycleBase
    /\ falls = 128 => (current_channel = CycleBase /\ bit_counter = 0)

\* the 128th falling edge after an lrck rising edge, in the count-down
\* variant
C16_Witness ==
    /\ variant = "down"
    /\ i2s_ev.nsync >= 1
    /\ i2s_ev.fall
    /\ falls = 128
    /\ current_channel = 0 /\ bit_counter = 0
    /\ i2s_ev.ch0 = 1 /\ i2s_ev.bc0 = 31

\* C20: slot invariant.  After every post_edge call, whatever lrck and bick
\* did, current_channel is in 0..3 and bit_counter in 0..31; and a call
\* changes the channel state of no slot but the one that is active after
\* it.
C20_SlotInvariant ==
    /\ [](current_channel \in 0..3 /\ bit_counter \in 0..31)
    /\ [][\A c \in 0..3 :
             c # current_channel' => channels'[c] = channels[c]]_vars

\* the last falling edge of slot 3 in the count-up variant, after a frame
\* sync and with samples captured: the slot wraps to 0, the counter to 0
C20_Witness ==
    /\ variant = "up"
    /\ i2s_ev.nsync >= 1
    /\ i2s_ev.fall /\ ~i2s_ev.lrise
    /\ i2s_ev.ch0 = 3 /\ i2s_ev.bc0 = 31
    /\ current_channel = 0 /\ bit_counter = 0
    /\ channels[3].captured # <<>>

\* bit j of the 16-bit two's-complement encoding of s
BitOf(s, j) == ((s % 65536) \div Pow2(j)) % 2

\* C22: transmit bit index.  On a bick falling edge of a slot with an
\* active sample s the bit driven at bit counter k in 1..15 is bit 16-k of
\* s and the bit driven at k = 0 is the sign bit of s; and the 16 bits
\* driven at k = 0..15 of a slot entered by wrap-around are the MSB-first
\* 16-bit encoding of floor(s/2), the same for s and for s with its bit 0
\* flipped.
C22_TxBitIndex ==
    LET cs == channels[current_channel]
        s == cs.current_tx_sample
        k == bit_counter
    IN  (i2s_ev.fall /\ cs.tx_active /\ k < 16)
            => /\ k = 0 => i2s_sdout1 = BitOf(s, 15)
               /\ k >= 1 => i2s_sdout1 = BitOf(s, 16 - k)
               /\ (k = 15 /\ Len(tx_trace) = 16) =>
                     /\ tx_trace = [i \in 1..16 |-> BitOf(s \div 2, 16 - i)]
                     /\ tx_trace =
                           [i \in 1..16 |->
                               BitOf((s - (s % 2) + (1 - (s % 2))) \div 2,
                                     16 - i)]

\* the 16th data bit of a wrap-entered slot sending -200: bit 1 of the
\* sample, after the sign bit and bits 15..2
C22_Witness ==
    /\ i2s_ev.fall /\ bit_counter = 15
    /\ channels[current_channel].tx_active
    /\ channels[current_channel].current_tx_sample = -200
    /\ tx_trace = <<1, 1, 1, 1, 1, 1, 1, 1, 1, 0, 0, 1, 1, 1, 0, 0>>
    /\ current_channel # StartSlot(variant)

-----------------------------------------------------------------------------
(* Properties of the scheduler loop *)

\* the half-period of a domain, in ns
HalfPeriod(d) == NsInCycle(d) \div 2

\* the fixed order of the domains within a step
DomainRank(d) == CASE d = "dvi" -> 1 [] d = "sync" -> 2 [] d = "audio" -> 3

\* the loop is past the deadline test of domain d in the current step
PastToggle(d) ==
    CASE d = "dvi" -> pc \in {"dvi_edge", "sync", "sync_edge", "audio",
                              "audio_edge", "advance"}
      [] d = "sync" -> pc \in {"sync_edge", "audio", "audio_edge", "advance"}
      [] d = "audio" -> pc \in {"audio_edge", "advance"}

\* C9: in every step, at timestamp t, a domain's clock changes level if and
\* only if t is a multiple of the domain's half-period; no clock changes
\* level twice in a step; and at the end of the step at t every multiple of
\* the half-period up to t has produced exactly one change of level.
C9_ToggleDeadlines ==
    /\ \A d \in Domains : flips[d] <= 1
    /\ \A d \in Domains :
          /\ PastToggle(d) =>
                flips[d] = BoolToInt(timestamp_ns % HalfPeriod(d) = 0)
          /\ (pc \notin {"while", "done"} /\ ~PastToggle(d)) => flips[d] = 0
    /\ pc = "advance" =>
          \A d \in Domains :
              total_flips[d] = (timestamp_ns \div HalfPeriod(d)) + 1

\* a step after the first in which two clocks flip and the third does not
C9_Witness ==
    /\ pc = "advance"
    /\ timestamp_ns > 0
    /\ flips["dvi"] = 1
    /\ flips["sync"] = 1
    /\ flips["audio"] = 0
    /\ total_flips["audio"] = 1

\* C10: within a step the domains are handled in the one order dvi, sync,
\* audio; a handler call comes directly after the toggle of its own clock
\* and every toggle is directly followed by its handler call; and every
\* handler runs while the clocks of the later domains still have the level
\* they had when the step began.
C10_Ordering ==
    /\ \A i \in 1..Len(order) : \A j \in 1..Len(order) :
          i < j => DomainRank(order[i][1]) <= DomainRank(order[j][1])
    /\ \A i \in 1..Len(order) :
          /\ order[i][2] = "edge" =>
                i > 1 /\ order[i - 1] = <<order[i][1], "toggle">>
          /\ order[i][2] = "toggle" =>
                IF i < Len(order)
                THEN order[i + 1] = <<order[i][1], "edge">>
                ELSE /\ pc \in {"dvi_edge", "sync_edge", "audio_edge"}
                     /\ Clocks[order[i][1]] # step_clk[order[i][1]]
    /\ \A d \in Domains :
          seen[d] # NotSeen =>
              /\ seen[d][d] # step_clk[d]
              /\ \A e \in Domains :
                    DomainRank(e) > DomainRank(d) => seen[d][e] = step_clk[e]

\* a step after the first in which all three clocks flip and all three
\* handlers ran
C10_Witness ==
    /\ pc = "advance"
    /\ timestamp_ns > 0
    /\ order = <<(<<"dvi", "toggle">>), (<<"dvi", "edge">>),
                 (<<"sync", "toggle">>), (<<"sync", "edge">>),
                 (<<"audio", "toggle">>), (<<"audio", "edge">>)>>
    /\ Clocks["audio"] # step_clk["audio"]
    /\ seen["dvi"]["audio"] = step_clk["audio"]

\* C11: simulated time never decreases and changes only in the time
\* increment at the end of a step, by exactly 1000 ps; the loop is left
\* only with finish signalled or the horizon reached, and it is left at the
\* first loop test at which one of the two holds; and every run leaves the
\* loop.
C11_Termination ==
    /\ [][/\ time_ps' >= time_ps
          /\ time_ps' # time_ps => (pc = "advance" /\ time_ps' = time_ps + 1000)
          /\ (pc = "advance" /\ pc' # pc) => time_ps' = time_ps + 1000
          /\ (pc # "done" /\ pc' = "done") =>
                (pc = "while" /\ (got_finish \/ time_ps >= MaxSimTime))
          /\ (pc = "while" /\ pc' # pc
                  /\ (got_finish \/ time_ps >= MaxSimTime)) => pc' = "done"
          /\ pc = "done" => pc' = "done"]_vars
    /\ <>(pc = "done")

\* the soft timeout: the loop left at the horizon, finish never signalled
C11_Witness ==
    /\ pc = "done"
    /\ ~got_finish
    /\ time_ps >= MaxSimTime
    /\ time_ps < MaxSimTime + 1000
    /\ ~dvi_fault

\* C17: evaluate before read.  Whenever an edge handler reads outputs of
\* the Signal Source, no input of the Signal Source has been written since
\* the last evaluation.
C17_EvalBeforeRead ==
    \A d \in Domains : read_under[d] = {}

\* C21: clock phase.  Every clock, low at the start, changes level in the
\* step at timestamp 0, and at the end of the step at timestamp t the clock
\* of a domain is high if and only if t div half-period is even, whatever
\* the other domains did.
C21_ClockPhase ==
    /\ (pc = "advance" /\ timestamp_ns = 0) =>
          \A d \in Domains : flips[d] = 1 /\ Clocks[d]
    /\ pc = "advance" =>
          \A d \in Domains :
              Clocks[d] = (((timestamp_ns \div HalfPeriod(d)) % 2) = 0)

\* the end of a later step at which the three clocks are low, high, low
C21_Witness ==
    /\ pc = "advance"
    /\ timestamp_ns > HalfPeriod("audio")
    /\ ~clk_dvi /\ clk_sync /\ ~clk_audio
    /\ total_flips["dvi"] > total_flips["sync"]

=============================================================================
